---- MODULE Spec2Model ----
(***************************************************************************)
(* Suggestion reconciliation of the Periksa Kata proxy                     *)
(* (checkTextWithOpenAI, the loop that validates, repairs, de-overlaps,    *)
(* sanitizes and caps the candidate array the LLM returned).               *)
(*                                                                         *)
(* Strings are sequences of one-character tokens.  JavaScript values that  *)
(* reach the loop from JSON.parse are records [t, s]: t is the type        *)
(* ("str", "num", "null", "arr", "undefined") and s is the value's         *)
(* String() form.  Offsets are records [t, n] with n the number.           *)
(***************************************************************************)
EXTENDS Integers, Sequences, FiniteSets, TLC

VARIABLES
    text,                   \* the original text of the request
    n,                      \* suggestions.length, the size of the candidate array
    i,                      \* the loop index: candidates examined so far
    processedSuggestions,   \* the accepted suggestions, in acceptance order
    takenRanges,            \* the [start, end] pairs already accepted
    status,                 \* "running" | "returned" | "raised"
    cur,                    \* the candidate examined last
    curIdx,                 \* its index in the candidate array
    verdict,                \* the branch the last iteration left through
    fed,                    \* long text: how many well-placed candidates were read
    now                     \* Date.now()

loopVars == <<text, n, i, processedSuggestions, takenRanges, status, cur, curIdx,
              verdict, fed, now>>

(* The admission limiter.  Times are kept relative to the clock: an entry  *)
(* of rateLimitStore holds now - time, a key of the remote store holds the *)
(* time left until it expires.                                             *)
VARIABLES
    remoteConfigured,       \* CONFIG.KV_REST_API_URL && CONFIG.KV_REST_API_TOKEN
    rateLimitStore,         \* the Map: client -> ages of its counted requests
    kv,                     \* the remote store: client's key -> [count, ttl]
    calls,                  \* the checkRateLimit calls awaiting the remote store
    granted,                \* client -> ages of the calls the local strategy allowed
    remoteGrants,           \* client -> calls the remote strategy allowed on this key
    lifetimeGrants,         \* client -> calls allowed, either way, since its key was created
    begun,                  \* checkRateLimit calls sent to the remote store so far
    last                    \* the check completed by the last step, if any

limiterVars == <<remoteConfigured, rateLimitStore, kv, calls, granted, remoteGrants,
                 lifetimeGrants, begun, last>>

(* The request handler, serving one request at a time. *)
VARIABLES
    apiKey,                 \* CONFIG.OPENAI_API_KEY is set
    req,                    \* the request being served: method and body
    hpc,                    \* where the handler is: the await it is suspended at
    res,                    \* the response sent, if any
    llmCalls,               \* fetches sent to the LLM for this request
    served,                 \* requests received so far
    seen                    \* what happened to this request on the way

handlerVars == <<apiKey, req, hpc, res, llmCalls, served, seen>>

(* The pure functions, applied to one input at a time. *)
VARIABLES
    arg,                    \* the function and its arguments
    ret                     \* what it returned, once it has

fnVars == <<arg, ret>>

vars == <<loopVars, limiterVars, handlerVars, fnVars>>

----------------------------------------------------------------------------
(* Bounds of the model *)

MaxTextLen == 2       \* short texts: every text of 1..MaxTextLen characters
MaxCands == 2         \* short texts: candidate arrays of 0..MaxCands elements
LongTextLen == 21     \* the long text, for runs that reach the cap
MaxLongCands == 25    \* the long text: candidate arrays of 0..MaxLongCands elements
MaxClock == 1         \* Date.now() of a run over the field text is in 0..MaxClock
MaxCalls == 3         \* checkRateLimit calls that go to the remote store
FarOffset == 9        \* a reported offset beyond every short text
MaxServed == 2        \* requests the handler receives in a run
MaxWireCands == 1     \* candidate arrays of 0..MaxWireCands elements in a served request
RepairLen == 3        \* repair runs: every text of 1..RepairLen characters
RepairReach == 2      \* repair runs: reported starts from -RepairReach to the length + RepairReach
MaxJsonStr == 1       \* parser runs: strings of 0..MaxJsonStr characters inside the object
MaxRawLen == 4        \* sanitizer runs: strings of 0..MaxRawLen characters, maxLen in 1..MaxRawLen
MaxArrayLen == 3      \* whole-array runs: candidate arrays of 0..MaxArrayLen elements

(* Program constant: "if (processedSuggestions.length >= 20) break" *)
MaxSuggestions == 20

----------------------------------------------------------------------------
(* JavaScript string primitives *)

Min(a, b) == IF a <= b THEN a ELSE b
Max(a, b) == IF a >= b THEN a ELSE b
Abs(a) == IF a < 0 THEN -a ELSE a

(* "Idot" is U+0130, whose lower case is the two code units "i", "dot". *)
TextChars == {"a", "A"}

LowerChar(ch) ==
    CASE ch = "A" -> <<"a">>
      [] ch = "Idot" -> <<"i", "dot">>
      [] OTHER -> <<ch>>

RECURSIVE toLowerCase(_)
toLowerCase(s) ==
    IF s = <<>> THEN <<>> ELSE LowerChar(Head(s)) \o toLowerCase(Tail(s))

(* String.prototype.slice(from, to) for integer arguments *)
slice(s, from, to) ==
    LET f == Min(Max(from, 0), Len(s))
        t == Min(Max(to, 0), Len(s))
    IN  IF f < t THEN SubSeq(s, f + 1, t) ELSE <<>>

(* every index at which needle occurs in haystack: the indexOf loop with   *)
(* from = idx + 1, so overlapping occurrences are all found                *)
occurrences(haystack, needle) ==
    { idx \in 0..(Len(haystack) - Len(needle)) :
          SubSeq(haystack, idx + 1, idx + Len(needle)) = needle }

(* faulty variant: of two occurrences equally near, the later one wins *)
nearestTieHigh(occ, approxIndex) ==
    CHOOSE b \in occ :
        \A o \in occ : \/ Abs(b - approxIndex) < Abs(o - approxIndex)
                       \/ Abs(b - approxIndex) = Abs(o - approxIndex) /\ b >= o

(* the first occurrence whose distance to approxIndex is smallest *)
nearest(occ, approxIndex) ==
    CHOOSE b \in occ :
        \A o \in occ : \/ Abs(b - approxIndex) < Abs(o - approxIndex)
                       \/ Abs(b - approxIndex) = Abs(o - approxIndex) /\ b <= o

----------------------------------------------------------------------------
(* JavaScript values *)

Str(s) == [t |-> "str", s |-> s]
Num(d) == [t |-> "num", s |-> <<d>>]            \* a one-digit number
Arr(s) == [t |-> "arr", s |-> s]                \* the array [s], s non-empty
Null == [t |-> "null", s |-> <<"n", "u", "l", "l">>]
Undefined == [t |-> "undefined", s |-> <<"u", "n", "d", "e", "f">>]

Off(k) == [t |-> "num", n |-> k]                \* a numeric start/end
NotNum == [t |-> "null", n |-> 0]               \* start/end: null
NoOffset == [t |-> "undefined", n |-> 0]        \* start/end: field missing

(* ToBoolean *)
Truthy(v) ==
    CASE v.t = "str" -> v.s # <<>>
      [] v.t = "num" -> v.s # <<"0">>
      [] v.t = "arr" -> TRUE
      [] OTHER -> FALSE

(* String(v || '') *)
StringOr(v) == IF Truthy(v) THEN v.s ELSE <<>>

----------------------------------------------------------------------------
(* Helpers of the reconciliation loop *)

NotFound == -1
TypeError == NotFound - 1   \* the call threw instead of returning

(* faulty variant: the exact repair tier is missing *)
findNearestIndexOff(haystack, needle, approxIndex) == NotFound

findNearestIndex(haystack, needle, approxIndex) ==
    IF ~Truthy(needle) THEN NotFound          \* !needle || needle.length === 0
    ELSE LET occ == occurrences(haystack, needle.s)
         IN  IF occ = {} THEN NotFound ELSE nearest(occ, approxIndex)

findNearestIndexCI(haystack, needle, approxIndex) ==
    IF ~Truthy(needle) THEN NotFound          \* needLower === ''
    ELSE IF needle.t # "str" THEN TypeError   \* (needle || '').toLowerCase is not a function
    ELSE LET occ == occurrences(toLowerCase(haystack), toLowerCase(needle.s))
         IN  IF occ = {} THEN NotFound ELSE nearest(occ, approxIndex)

basicSuggestionShapeValid(c) ==
    /\ c.kind = "object"
    /\ c.category # "undefined"
    /\ c.message.t # "undefined"
    /\ c.before.t # "undefined"
    /\ c.after.t # "undefined"
    /\ c.start.t # "undefined"
    /\ c.end.t # "undefined"

Categories == {"typo", "baku", "eyd", "konteks"}
Severities == {"low", "medium", "high"}

(* the falsy values of the severity field: missing, null, '', 0 *)
FalsySeverities == {"undefined", "null", "", "num0"}

(* suggestion.severity && !Severities.includes(suggestion.severity) *)
severityRejected(c) == c.severity \notin FalsySeverities /\ c.severity \notin Severities

(* faulty variant: only a repeat of an accepted range is caught *)
overlapsSameRangeOnly(taken, s, e) ==
    \E k \in 1..Len(taken) : s = taken[k][1] /\ e = taken[k][2]

(* faulty variant: only a candidate that starts inside an accepted range is caught *)
overlapsStartOnly(taken, s, e) ==
    \E k \in 1..Len(taken) : s >= taken[k][1] /\ s < taken[k][2]

overlaps(taken, s, e) ==
    \E k \in 1..Len(taken) : ~(e <= taken[k][1] \/ s >= taken[k][2])

(* sanitizeString: control characters become spaces, whitespace runs       *)
(* collapse to one space, the result is trimmed, then cut to maxLen.       *)
(* "CTL" is a control character, "TAB" a whitespace character other than   *)
(* the space.                                                              *)
IsSpace(ch) == ch \in {" ", "TAB"}

RECURSIVE dropSpaces(_)
dropSpaces(s) ==
    IF s # <<>> /\ IsSpace(Head(s)) THEN dropSpaces(Tail(s)) ELSE s

(* s.replace(/\s+/g, ' '): the first character of a whitespace run becomes *)
(* a space, the others go                                                  *)
Kept(ch) == ch # "GONE"

collapse(s) ==
    SelectSeq([k \in 1..Len(s) |->
                  IF ~IsSpace(s[k]) THEN s[k]
                  ELSE IF k > 1 /\ IsSpace(s[k - 1]) THEN "GONE"
                  ELSE " "],
              Kept)

trim(s) ==
    LET l == dropSpaces(s)
    IN  IF l # <<>> /\ IsSpace(l[Len(l)]) THEN SubSeq(l, 1, Len(l) - 1) ELSE l

MaxMessageLen == 200
MaxAfterLen == 100

(* faulty variant: the result is not cut to maxLen *)
sanitizeStringUncut(input, maxLen) ==
    LET blanked == [k \in 1..Len(input) |-> IF input[k] = "CTL" THEN " " ELSE input[k]]
    IN  trim(collapse(blanked))

sanitizeString(input, maxLen) ==
    LET blanked == [k \in 1..Len(input) |-> IF input[k] = "CTL" THEN " " ELSE input[k]]
        t == trim(collapse(blanked))
    IN  IF maxLen > 0 /\ Len(t) > maxLen THEN slice(t, 0, maxLen) ELSE t

(* typeof after === 'string' ? after : String(after ?? '') *)
afterString(v) == IF v.t \in {"null", "undefined"} THEN <<>> ELSE v.s

----------------------------------------------------------------------------
(* One candidate through bounds coercion, the exact-match check and the    *)
(* two repair tiers (lines 496-536).  tier is the branch taken:            *)
(*   "asis"  text.slice(start, end) === before                             *)
(*   "exact" relocated by findNearestIndex                                 *)
(*   "ci"    relocated by findNearestIndexCI, before replaced              *)
(*   "none"  no occurrence: the candidate is skipped                       *)
(*   "throw" findNearestIndexCI threw                                      *)

reportedStart(c) == IF c.start.t = "num" THEN c.start.n ELSE 0

reportedEnd(c, txt) ==
    IF c.end.t = "num" THEN c.end.n
    ELSE Min(Len(txt), reportedStart(c) + Len(StringOr(c.before)))

(* faulty variant: the start is clamped into the first half of the text *)
clampStartHalf(c, txt) == Max(0, Min(reportedStart(c), Len(txt) \div 2))

clampStart(c, txt) == Max(0, Min(reportedStart(c), Len(txt)))

clampEnd(c, txt) == Max(clampStart(c, txt), Min(reportedEnd(c, txt), Len(txt)))

(* faulty variant: the case-insensitive search runs before the exact one *)
anchorCaseBlind(c, txt) ==
    LET start == clampStart(c, txt)
        end == clampEnd(c, txt)
        actualText == slice(txt, start, end)
        width == Len(StringOr(c.before))
        idxExact == findNearestIndex(txt, c.before, start)
        idxCI == findNearestIndexCI(txt, c.before, start)
    IN  IF c.before.t = "str" /\ actualText = c.before.s
        THEN [tier |-> "asis", start |-> start, end |-> end, actualText |-> actualText]
        ELSE IF idxCI = TypeError
        THEN [tier |-> "throw", start |-> start, end |-> end, actualText |-> actualText]
        ELSE IF idxCI # NotFound
        THEN [tier |-> "ci", start |-> idxCI, end |-> idxCI + width,
              actualText |-> slice(txt, idxCI, idxCI + width)]
        ELSE IF idxExact # NotFound
        THEN [tier |-> "exact", start |-> idxExact, end |-> idxExact + width,
              actualText |-> slice(txt, idxExact, idxExact + width)]
        ELSE [tier |-> "none", start |-> start, end |-> end, actualText |-> actualText]

anchor(c, txt) ==
    LET start == clampStart(c, txt)
        end == clampEnd(c, txt)
        actualText == slice(txt, start, end)
        width == Len(StringOr(c.before))
        idxExact == findNearestIndex(txt, c.before, start)
        idxCI == findNearestIndexCI(txt, c.before, start)
    IN  IF c.before.t = "str" /\ actualText = c.before.s
        THEN [tier |-> "asis", start |-> start, end |-> end, actualText |-> actualText]
        ELSE IF idxExact # NotFound
        THEN [tier |-> "exact", start |-> idxExact, end |-> idxExact + width,
              actualText |-> slice(txt, idxExact, idxExact + width)]
        ELSE IF idxCI = TypeError
        THEN [tier |-> "throw", start |-> start, end |-> end, actualText |-> actualText]
        ELSE IF idxCI # NotFound
        THEN [tier |-> "ci", start |-> idxCI, end |-> idxCI + width,
              actualText |-> slice(txt, idxCI, idxCI + width)]
        ELSE [tier |-> "none", start |-> start, end |-> end, actualText |-> actualText]

(* the id given to a suggestion that has none: `sg-${Date.now()}-${i}` *)
synthId(time, idx) == <<"sg", time, idx>>

(* faulty variant: the candidate's own before is kept instead of the substring *)
fixedKeepsBefore(c, a, idx, time) ==
    [start |-> a.start, end |-> a.end, before |-> StringOr(c.before),
     after |-> sanitizeString(afterString(c.after), MaxAfterLen),
     message |-> sanitizeString(c.message.s, MaxMessageLen),
     category |-> c.category, severity |-> c.severity, confidence |-> c.confidence,
     id |-> IF c.id = <<>> THEN synthId(time, idx) ELSE c.id,
     src |-> idx, tier |-> a.tier]

(* the object pushed to processedSuggestions ({...suggestion, start, end,  *)
(* before, after, message} and the id); src and tier record where the      *)
(* suggestion came from: the candidate's index and the branch of anchor    *)
fixed(c, a, idx, time) ==
    [start |-> a.start, end |-> a.end, before |-> a.actualText,
     after |-> sanitizeString(afterString(c.after), MaxAfterLen),
     message |-> sanitizeString(c.message.s, MaxMessageLen),
     category |-> c.category, severity |-> c.severity, confidence |-> c.confidence,
     id |-> IF c.id = <<>> THEN synthId(time, idx) ELSE c.id,
     src |-> idx, tier |-> a.tier]

(* faulty variant: the "continue" of the unrecoverable mismatch is missing *)
outcomeKeepsMismatch(c, txt, taken) ==
    IF ~basicSuggestionShapeValid(c) THEN "shape"
    ELSE IF c.category \notin Categories THEN "category"
    ELSE IF severityRejected(c) THEN "severity"
    ELSE LET a == anchor(c, txt)
         IN  IF a.tier = "throw" THEN "raised"
             ELSE IF overlaps(taken, a.start, a.end) THEN "overlap"
             ELSE "accepted"

(* faulty variant: the category is not tested *)
outcomeAnyCategory(c, txt, taken) ==
    IF ~basicSuggestionShapeValid(c) THEN "shape"
    ELSE IF severityRejected(c) THEN "severity"
    ELSE LET a == anchor(c, txt)
         IN  IF a.tier = "throw" THEN "raised"
             ELSE IF a.tier = "none" THEN "mismatch"
             ELSE IF overlaps(taken, a.start, a.end) THEN "overlap"
             ELSE "accepted"

(* the branch one iteration leaves through *)
outcome(c, txt, taken) ==
    IF ~basicSuggestionShapeValid(c) THEN "shape"
    ELSE IF c.category \notin Categories THEN "category"
    ELSE IF severityRejected(c) THEN "severity"
    ELSE LET a == anchor(c, txt)
         IN  IF a.tier = "throw" THEN "raised"
             ELSE IF a.tier = "none" THEN "mismatch"
             ELSE IF overlaps(taken, a.start, a.end) THEN "overlap"
             ELSE "accepted"

(* faulty variants: the cap test off by one in either direction *)
capReachedLate(list) == Len(list) > MaxSuggestions
capReachedEarly(list) == Len(list) >= MaxSuggestions - 1

capReached(list) == Len(list) >= MaxSuggestions

----------------------------------------------------------------------------
(* The inputs: texts and candidate arrays *)

RECURSIVE StringsUpTo(_, _)
StringsUpTo(chars, len) ==
    IF len = 0 THEN {<<>>}
    ELSE LET shorter == StringsUpTo(chars, len - 1)
         IN  shorter \cup {Append(s, ch) : s \in shorter, ch \in chars}

(* validateRequest rejects the empty text, so the loop never sees it *)
PlainTexts == StringsUpTo(TextChars, MaxTextLen) \ {<<>>}
DottedTexts == {<<"Idot">> \o t : t \in StringsUpTo(TextChars, MaxTextLen - 1)}
ShortTexts == PlainTexts \cup DottedTexts
LongText == [k \in 1..LongTextLen |-> "a"]
FieldText == <<"k", "a", "t", "a">>
Texts == ShortTexts \cup {LongText, FieldText}

Cand(before, start, end) ==
    [kind |-> "object", category |-> "typo", severity |-> "undefined",
     message |-> Str(<<"m", "CTL", " ", "s">>), after |-> Str(<<" ", "x">>),
     before |-> before, start |-> start, end |-> end, id |-> <<>>,
     confidence |-> NoOffset]

Befores ==
    {Str(<<>>), Str(<<"a">>), Str(<<"A">>), Str(<<"a", "a">>), Str(<<"b">>),
     Null, Num("5")}

OffsetPairs ==
    {<<Off(0), Off(1)>>, <<Off(1), Off(2)>>, <<Off(0), Off(2)>>, <<Off(0), Off(0)>>,
     <<Off(-1), NotNum>>, <<Off(FarOffset), Off(FarOffset + 1)>>}

AnchoredCands == {Cand(b, o[1], o[2]) : b \in Befores, o \in OffsetPairs}

WellFormed == Cand(Str(<<"a">>), Off(0), Off(1))

(* array elements that fail the shape or the enumeration check *)
MalformedCands ==
    {[WellFormed EXCEPT !.kind = "null"],
     [WellFormed EXCEPT !.after = Undefined],
     [WellFormed EXCEPT !.category = "style"],
     [WellFormed EXCEPT !.severity = "critical"]}

(* the long text's arrays: the k-th well-placed candidate selects the k-th *)
(* character; among the first MaxCands elements there may also be null     *)
(* elements and repeats of the first well-placed candidate                 *)
PlacedCand(k) == Cand(Str(<<"a">>), Off(k), Off(k + 1))

LongCands(idx, k) ==
    (IF k < LongTextLen THEN {PlacedCand(k)} ELSE {})
        \cup (IF idx < MaxCands
              THEN {PlacedCand(0), [WellFormed EXCEPT !.kind = "null"]}
              ELSE {})

(* the field text's arrays: candidates whose span needs no repair, with    *)
(* every kind of value in the fields the loop copies or rewrites           *)
FieldCand(s, e) == Cand(Str(SubSeq(FieldText, s + 1, e)), Off(s), Off(e))

LongMessage ==
    [k \in 1..(MaxMessageLen + 2) |->
        IF k < MaxMessageLen THEN "m"
        ELSE IF k = MaxMessageLen THEN " "
        ELSE IF k = MaxMessageLen + 1 THEN "CTL"
        ELSE "x"]

LongAfter == [k \in 1..(MaxAfterLen + 1) |-> "x"]

FieldVariants(c) ==
    {c}
        \cup {[c EXCEPT !.category = v] : v \in {"baku", "eyd", "konteks", "Typo", "num1"}}
        \cup {[c EXCEPT !.severity = v] :
                 v \in {"low", "medium", "high", "LOW", "", "num0", "null"}}
        \cup {[c EXCEPT !.id = v] : v \in {<<"x">>, synthId(0, 1)}}
        \cup {[c EXCEPT !.message = v] : v \in {Str(LongMessage), Null}}
        \cup {[c EXCEPT !.after = v] :
                 v \in {Str(LongAfter), Null, Str(<<"TAB", "x", "TAB", " ", "y">>)}}
        \cup {[c EXCEPT !.confidence = v] : v \in {Off(0), Off(1), Off(2), Off(-1), NotNum}}

FieldCands ==
    FieldVariants(FieldCand(0, 2))
        \cup {FieldCand(2, 4), [FieldCand(2, 4) EXCEPT !.id = <<"x">>],
              [FieldCand(2, 4) EXCEPT !.after = Str(LongAfter)]}

(* the text of a served request and its arrays: a candidate that is kept,  *)
(* a null element, and a candidate whose "before" is the number 5          *)
WireText == <<"t", "e", "k", "s">>

WireCands ==
    {Cand(Str(SubSeq(WireText, 1, 2)), Off(0), Off(2)),
     [WellFormed EXCEPT !.kind = "null"],
     Cand(Num("5"), Off(0), Off(1))}

Candidates(txt, idx, k) ==
    IF txt = LongText THEN LongCands(idx, k)
    ELSE IF txt = FieldText THEN FieldCands
    ELSE IF txt = WireText THEN WireCands
    ELSE AnchoredCands \cup MalformedCands

(* Date.now(): the clock of a run, read once per accepted candidate; it    *)
(* may have advanced when the next candidate reads it                      *)
Times == 0..MaxClock

ClockAfter(txt, time) ==
    IF txt = FieldText /\ time < MaxClock THEN {time, time + 1} ELSE {time}

NoCand == [WellFormed EXCEPT !.kind = "none"]

----------------------------------------------------------------------------
(* The admission limiter: configuration and stores *)

maxRequests == 10
windowMs == 60000
MsPerSec == 1000

(* Math.ceil(CONFIG.RATE_LIMIT.windowMs / 1000), and the same in ms *)
ttlSec == (windowMs + MsPerSec - 1) \div MsPerSec
ttlMs == ttlSec * MsPerSec

(* the clock advances in steps of half a window *)
Granule == windowMs \div 2

Clients == {"c1"}
Slots == {"s1", "s2"}

(* Map.set, Map.delete *)
Put(f, k, v) == [x \in DOMAIN f \cup {k} |-> IF x = k THEN v ELSE f[x]]
Drop(f, k) == [x \in DOMAIN f \ {k} |-> f[x]]

NoTTL == -1
NoCall == [pc |-> "idle", client |-> "c1", incr |-> 0, stale |-> FALSE]
NoCheck == [client |-> "c1", via |-> "none", kind |-> "none", allowed |-> FALSE,
            incr |-> 0, prior |-> 0, dropped |-> 0]

LimiterAtRest ==
    /\ rateLimitStore = <<>>
    /\ kv = <<>>
    /\ calls = [s \in Slots |-> NoCall]
    /\ granted = [c \in Clients |-> <<>>]
    /\ remoteGrants = [c \in Clients |-> 0]
    /\ lifetimeGrants = [c \in Clients |-> 0]
    /\ begun = 0
    /\ last = NoCheck

(* the remote store after maxRequests - 1 checks of every client in quick  *)
(* succession, all of them allowed and answered                            *)
LimiterNearLimit ==
    /\ rateLimitStore = <<>>
    /\ kv = [c \in Clients |-> [count |-> maxRequests - 1, ttl |-> ttlMs]]
    /\ calls = [s \in Slots |-> NoCall]
    /\ granted = [c \in Clients |-> <<>>]
    /\ remoteGrants = [c \in Clients |-> maxRequests - 1]
    /\ lifetimeGrants = [c \in Clients |-> maxRequests - 1]
    /\ begun = 0
    /\ last = NoCheck

(* no request has arrived *)
NoReq == [method |-> "none", body |-> [t |-> "null", text |-> Undefined, version |-> Undefined]]
NoRes == [status |-> 0, kind |-> "none", llmCalled |-> FALSE, skippedReason |-> "none",
          count |-> 0]
Unseen == [consulted |-> FALSE, allowed |-> FALSE, validated |-> FALSE, store |-> <<>>, kv |-> <<>>,
           primary |-> "none", retry |-> "none"]

(* no function has been applied *)
NoInput == [fn |-> "none"]
NoOutput == [fn |-> "none"]

FnAtRest ==
    /\ arg = NoInput
    /\ ret = NoOutput

HandlerAtRest ==
    /\ apiKey = TRUE
    /\ req = NoReq
    /\ hpc = "idle"
    /\ res = NoRes
    /\ llmCalls = 0
    /\ served = 0
    /\ seen = Unseen

(* the local store after maxRequests - 1 calls of every client in quick    *)
(* succession, all of them decided locally and allowed                     *)
LimiterLocalNearLimit ==
    /\ rateLimitStore = [c \in Clients |-> [k \in 1..(maxRequests - 1) |-> 0]]
    /\ kv = <<>>
    /\ calls = [s \in Slots |-> NoCall]
    /\ granted = [c \in Clients |-> [k \in 1..(maxRequests - 1) |-> 0]]
    /\ remoteGrants = [c \in Clients |-> 0]
    /\ lifetimeGrants = [c \in Clients |-> 0]
    /\ begun = 0
    /\ last = NoCheck

(* both stores after 2 * (maxRequests - 1) calls of every client in quick  *)
(* succession, all of them allowed: every other call reached the remote    *)
(* store and was answered, the others did not reach it and were decided    *)
(* locally                                                                 *)
LimiterBothNearLimit ==
    /\ rateLimitStore = [c \in Clients |-> [k \in 1..(maxRequests - 1) |-> 0]]
    /\ kv = [c \in Clients |-> [count |-> maxRequests - 1, ttl |-> ttlMs]]
    /\ calls = [s \in Slots |-> NoCall]
    /\ granted = [c \in Clients |-> [k \in 1..(maxRequests - 1) |-> 0]]
    /\ remoteGrants = [c \in Clients |-> maxRequests - 1]
    /\ lifetimeGrants = [c \in Clients |-> 2 * (maxRequests - 1)]
    /\ begun = 0
    /\ last = NoCheck

----------------------------------------------------------------------------
(* The loop *)

Init ==
    /\ text \in Texts
    /\ n \in (IF text = LongText THEN {MaxLongCands} ELSE 0..MaxCands)
    /\ i = 0
    /\ processedSuggestions = <<>>
    /\ takenRanges = <<>>
    /\ status = "running"
    /\ cur = NoCand
    /\ curIdx = -1
    /\ verdict = "none"
    /\ fed = 0
    /\ now \in (IF text = FieldText THEN Times ELSE {0})
    /\ LimiterAtRest
    /\ remoteConfigured = FALSE
    /\ HandlerAtRest
    /\ FnAtRest

(* one iteration of "for (let i = 0; i < suggestions.length; i++)" on the  *)
(* element c = suggestions[i]                                              *)
Step(c) ==
    LET v == outcome(c, text, takenRanges)
        a == anchor(c, text)
        list == Append(processedSuggestions, fixed(c, a, i, now))
    IN  /\ cur' = c
        /\ curIdx' = i
        /\ verdict' = v
        /\ fed' = IF text = LongText /\ c = PlacedCand(fed) THEN fed + 1 ELSE fed
        /\ processedSuggestions' = IF v = "accepted" THEN list ELSE processedSuggestions
        /\ takenRanges' = IF v = "accepted"
                          THEN Append(takenRanges, <<a.start, a.end>>)
                          ELSE takenRanges
        /\ status' = IF v = "raised" THEN "raised"
                     ELSE IF v = "accepted" /\ capReached(list) THEN "returned"
                     ELSE "running"
        /\ i' = IF v = "raised" \/ (v = "accepted" /\ capReached(list)) THEN i ELSE i + 1
        /\ now' \in ClockAfter(text, now)
        /\ UNCHANGED <<text, n>>
        /\ UNCHANGED limiterVars
        /\ UNCHANGED handlerVars
        /\ UNCHANGED fnVars
    /\ UNCHANGED fnVars

(* faulty variant: the loop runs once more than the array has elements *)
IterateOnePast ==
    /\ status = "running"
    /\ i <= n
    /\ \E c \in Candidates(text, i, fed) : Step(c)

Iterate ==
    /\ status = "running"
    /\ i < n
    /\ \E c \in Candidates(text, i, fed) : Step(c)

(* the loop condition fails: return processedSuggestions *)
Return ==
    /\ status = "running"
    /\ i >= n
    /\ status' = "returned"
    /\ UNCHANGED <<text, n, i, processedSuggestions, takenRanges, cur, curIdx, verdict,
                   fed, now>>
    /\ UNCHANGED limiterVars
    /\ UNCHANGED handlerVars
    /\ UNCHANGED fnVars

Next == Iterate \/ Return

Spec == Init /\ [][Next]_vars

(* One-candidate runs over texts in which "before" occurs several times,   *)
(* next to each other and overlapping, with the span reported anywhere     *)
(* around the text                                                         *)
RepairTexts == StringsUpTo(TextChars, RepairLen) \ {<<>>}

RepairCands(txt) ==
    {Cand(Str(b), Off(s), Off(s + w)) :
        b \in {<<"a">>, <<"a", "a">>},
        s \in (0 - RepairReach)..(Len(txt) + RepairReach),
        w \in 1..2}

InitRepair ==
    /\ text \in RepairTexts
    /\ n = 1
    /\ i = 0
    /\ processedSuggestions = <<>>
    /\ takenRanges = <<>>
    /\ status = "running"
    /\ cur = NoCand
    /\ curIdx = -1
    /\ verdict = "none"
    /\ fed = 0
    /\ now = 0
    /\ LimiterAtRest
    /\ remoteConfigured = FALSE
    /\ HandlerAtRest
    /\ FnAtRest

Repair ==
    /\ status = "running"
    /\ i < n
    /\ \E c \in RepairCands(text) : Step(c)

NextRepair == Repair \/ Return

SpecRepair == InitRepair /\ [][NextRepair]_vars

----------------------------------------------------------------------------
(* Properties of the reconciliation loop *)

Accepted == 1..Len(processedSuggestions)
Last == processedSuggestions[Len(processedSuggestions)]

(* C1: every accepted suggestion's before is exactly the text between its  *)
(* start and end, whichever branch (as-is, exact repair, case-insensitive  *)
(* repair) accepted it.                                                    *)
C1_BeforeIsSlice ==
    \A k \in Accepted :
        slice(text, processedSuggestions[k].start, processedSuggestions[k].end)
            = processedSuggestions[k].before

(* a suggestion accepted by the case-insensitive tier whose before was     *)
(* rewritten to the text's own spelling                                    *)
C1_Witness ==
    /\ verdict = "accepted"
    /\ Last.tier = "ci"
    /\ Last.before # cur.before.s
    /\ Last.before # <<>>

(* C2: no two accepted suggestions have overlapping half-open intervals.   *)
C2_NoOverlap ==
    \A k, l \in Accepted :
        k # l => ~(/\ processedSuggestions[k].start < processedSuggestions[l].end
                   /\ processedSuggestions[l].start < processedSuggestions[k].end)

(* two accepted suggestions that touch: one ends where the other starts *)
C2_Witness ==
    /\ Len(processedSuggestions) = 2
    /\ processedSuggestions[2].end = processedSuggestions[1].start
    /\ processedSuggestions[2].start < processedSuggestions[2].end
    /\ processedSuggestions[1].start < processedSuggestions[1].end

(* C3: every accepted suggestion has a non-empty span inside the text,     *)
(* 0 <= start < end <= length(text).                                       *)
C3_SpanNonEmptyInRange ==
    \A k \in Accepted :
        /\ 0 <= processedSuggestions[k].start
        /\ processedSuggestions[k].start < processedSuggestions[k].end
        /\ processedSuggestions[k].end <= Len(text)

(* C4: the accepted list never holds more than 20 suggestions.             *)
C4_AtMostCap == Len(processedSuggestions) <= MaxSuggestions

C4_Witness ==
    /\ Len(processedSuggestions) = MaxSuggestions
    /\ n > MaxSuggestions

(* C5: the output is the candidates that passed, in array order; the loop  *)
(* stops at the 20th accepted candidate and examines nothing after it; an  *)
(* array of well-placed, pairwise disjoint candidates longer than 20       *)
(* yields its first 20.                                                    *)
C5_FirstTwentyInOrder ==
    /\ \A k, l \in Accepted :
           k < l => processedSuggestions[k].src < processedSuggestions[l].src
    /\ verdict = "accepted" =>
           /\ Len(processedSuggestions) >= 1
           /\ Last.src = curIdx
           /\ Last.start = anchor(cur, text).start
           /\ Last.end = anchor(cur, text).end
    /\ verdict # "accepted" =>
           \A k \in Accepted : processedSuggestions[k].src # curIdx
    /\ (status = "returned" /\ Len(processedSuggestions) < MaxSuggestions) => i = n
    /\ Len(processedSuggestions) = MaxSuggestions =>
           /\ status = "returned"
           /\ Last.src = curIdx
           /\ i = curIdx
    /\ (text = LongText /\ status = "returned" /\ fed = curIdx + 1) =>
           /\ Len(processedSuggestions) = MaxSuggestions
           /\ \A k \in Accepted :
                  /\ processedSuggestions[k].src = k - 1
                  /\ processedSuggestions[k].start = k - 1
                  /\ processedSuggestions[k].end = k

(* 25 well-placed candidates in, the first 20 out, 5 never examined *)
C5_Witness ==
    /\ text = LongText
    /\ status = "returned"
    /\ n >= MaxSuggestions + 5
    /\ fed = MaxSuggestions
    /\ curIdx = MaxSuggestions - 1
    /\ Len(processedSuggestions) = MaxSuggestions

(* the candidate passes the shape and the enumeration checks *)
PassesChecks(c) ==
    /\ basicSuggestionShapeValid(c)
    /\ c.category \in Categories
    /\ ~severityRejected(c)

(* C6: a candidate whose span, after repair, overlaps an accepted span is  *)
(* dropped, and the accepted list only ever grows at its end: an accepted  *)
(* suggestion is never displaced, merged or changed by a later candidate.  *)
C6_FirstAcceptedWins ==
    [][/\ Len(processedSuggestions') >= Len(processedSuggestions)
       /\ SubSeq(processedSuggestions', 1, Len(processedSuggestions)) = processedSuggestions
       /\ LET a == anchor(cur', text)
          IN  (/\ curIdx' # curIdx
               /\ PassesChecks(cur')
               /\ a.tier \in {"asis", "exact", "ci"}
               /\ \E k \in Accepted :
                      /\ a.start < processedSuggestions[k].end
                      /\ processedSuggestions[k].start < a.end)
              => /\ processedSuggestions' = processedSuggestions
                 /\ verdict' = "overlap"]_vars

(* a relocated candidate lands on an accepted span and is dropped *)
C6_Witness ==
    /\ verdict = "overlap"
    /\ anchor(cur, text).tier = "exact"
    /\ \E k \in Accepted :
           /\ processedSuggestions[k].src < curIdx
           /\ anchor(cur, text).start < processedSuggestions[k].end
           /\ processedSuggestions[k].start < anchor(cur, text).end

(* C7: a candidate whose (clamped) start/end do not select before, while   *)
(* before occurs exactly once in the text, is relocated to that occurrence *)
(* and is then accepted there or dropped for overlap, never for mismatch.  *)
C7_UniqueOccurrenceRelocated ==
    LET b == cur.before.s
        occ == occurrences(text, b)
    IN  (/\ PassesChecks(cur)
         /\ cur.before.t = "str"
         /\ b # <<>>
         /\ Cardinality(occ) = 1
         /\ slice(text, clampStart(cur, text), clampEnd(cur, text)) # b)
        => LET p == CHOOSE q \in occ : TRUE
           IN  /\ verdict \in {"accepted", "overlap"}
               /\ verdict = "accepted" =>
                      /\ Last.src = curIdx
                      /\ Last.start = p
                      /\ Last.end = p + Len(b)
                      /\ Last.before = b
               /\ verdict = "overlap" =>
                      \E k \in Accepted :
                          /\ p < processedSuggestions[k].end
                          /\ processedSuggestions[k].start < p + Len(b)

(* before "aa" reported far beyond the text is moved to its occurrence *)
C7_Witness ==
    /\ verdict = "accepted"
    /\ cur.before = Str(<<"a", "a">>)
    /\ cur.start = Off(FarOffset)
    /\ cur.end = Off(FarOffset + 1)
    /\ Last.start = 0
    /\ Last.end = 2
    /\ Last.before = <<"a", "a">>

(* the case-insensitive occurrences of b in txt, as indexes into txt *)
OccurrencesCI(txt, b) ==
    { p \in 0..(Len(txt) - Len(b)) :
          toLowerCase(SubSeq(txt, p + 1, p + Len(b))) = toLowerCase(b) }

(* C8: when before has no exact occurrence but has a case-insensitive one, *)
(* the candidate is accepted at the nearest case-insensitive occurrence    *)
(* (unless it overlaps) with before replaced by the text's own spelling.   *)
C8_CaseInsensitiveRepair ==
    LET b == cur.before.s
        occ == OccurrencesCI(text, b)
    IN  (/\ PassesChecks(cur)
         /\ cur.before.t = "str"
         /\ b # <<>>
         /\ occurrences(text, b) = {}
         /\ occ # {})
        => LET p == nearest(occ, clampStart(cur, text))
           IN  /\ verdict \in {"accepted", "overlap"}
               /\ verdict = "accepted" =>
                      /\ Last.src = curIdx
                      /\ Last.start = p
                      /\ Last.end = p + Len(b)
                      /\ Last.before = slice(text, p, p + Len(b))
                      /\ toLowerCase(Last.before) = toLowerCase(b)

(* C9: a candidate whose before occurs nowhere in the text, neither        *)
(* exactly nor case-insensitively, is never in the accepted list.          *)
C9_AbsentBeforeDropped ==
    LET b == cur.before.s
    IN  (/\ cur.kind = "object"
         /\ cur.before.t \in {"str", "num", "null"}
         /\ b # <<>>
         /\ occurrences(text, b) = {}
         /\ occurrences(toLowerCase(text), toLowerCase(b)) = {})
        => /\ verdict # "accepted"
           /\ \A k \in Accepted : processedSuggestions[k].src # curIdx

(* before "b" is in no text: dropped as an unrecoverable mismatch *)
C9_Witness ==
    /\ verdict = "mismatch"
    /\ cur.before = Str(<<"b">>)
    /\ PassesChecks(cur)
    /\ Len(processedSuggestions) >= 1

(* C10: the loop never raises: a malformed candidate is skipped and the    *)
(* loop goes on to the next one.                                           *)
C10_NeverRaises == status # "raised"

----------------------------------------------------------------------------
(* Properties of the fields of an accepted suggestion *)

(* C11: every accepted suggestion has a category in {typo, baku, eyd,      *)
(* konteks}; a candidate with any other category is dropped, and an        *)
(* accepted suggestion carries its candidate's category unchanged.         *)
C11_CategoryInEnumeration ==
    /\ \A k \in Accepted : processedSuggestions[k].category \in Categories
    /\ (curIdx >= 0 /\ cur.category \notin Categories) =>
           /\ verdict \in {"shape", "category"}
           /\ \A k \in Accepted : processedSuggestions[k].src # curIdx
    /\ verdict = "accepted" => Last.category = cur.category

(* a well-placed candidate with category "Typo" is dropped after another   *)
(* candidate was accepted                                                  *)
C11_Witness ==
    /\ verdict = "category"
    /\ cur.category = "Typo"
    /\ anchor(cur, text).tier = "asis"
    /\ ~overlaps(takenRanges, anchor(cur, text).start, anchor(cur, text).end)
    /\ Len(processedSuggestions) = 1

(* C12: every accepted suggestion that carries a severity has one of low,  *)
(* medium, high, also when the candidate's severity is a falsy value.      *)
C12_SeverityInEnumeration ==
    \A k \in Accepted :
        processedSuggestions[k].severity # "undefined"
            => processedSuggestions[k].severity \in Severities

(* C13: the ids of the accepted suggestions are pairwise distinct.         *)
C13_IdsDistinct ==
    \A k, l \in Accepted :
        k # l => processedSuggestions[k].id # processedSuggestions[l].id

(* the characters sanitizeString must not leave behind: the control        *)
(* characters, those that are whitespace included                          *)
ControlChars == {"CTL", "TAB"}

Sanitized(s, maxLen) ==
    /\ Len(s) <= maxLen
    /\ \A k \in 1..Len(s) : s[k] \notin ControlChars
    /\ \A k \in 1..(Len(s) - 1) : ~(IsSpace(s[k]) /\ IsSpace(s[k + 1]))

C15_ConfidenceInRange ==
    \A k \in Accepted :
        processedSuggestions[k].confidence.t # "undefined"
            => /\ processedSuggestions[k].confidence.t = "num"
               /\ processedSuggestions[k].confidence.n >= 0
               /\ processedSuggestions[k].confidence.n <= 1

(* C16: the suggestion built from a candidate does not depend on the time  *)
(* of the run: at every other time the same candidate, at the same index   *)
(* of the same array over the same text, yields the same suggestion.       *)
C16_IndependentOfTime ==
    verdict = "accepted" =>
        \A t \in Times : Last = fixed(cur, anchor(cur, text), curIdx, t)

----------------------------------------------------------------------------
(* The admission limiter: strategies *)

(* faulty variant: a request made exactly one window ago is still counted *)
InWindowInclusive(age) == age <= windowMs

(* time => now - time < CONFIG.RATE_LIMIT.windowMs *)
InWindow(age) == age < windowMs

(* rateLimitStore.get(clientId) || [] *)
requestsOf(store, c) == IF c \in DOMAIN store THEN store[c] ELSE <<>>

(* faulty variant: a rejected call is recorded as well *)
checkRateLimitInMemoryCounting(store, c) ==
    LET validRequests == SelectSeq(requestsOf(store, c), InWindow)
    IN  IF Len(validRequests) >= maxRequests
        THEN [allowed |-> FALSE, store |-> Put(store, c, Append(validRequests, 0))]
        ELSE [allowed |-> TRUE, store |-> Put(store, c, Append(validRequests, 0))]

(* faulty variant: the call that finds maxRequests requests in the window  *)
(* is still let through                                                    *)
checkRateLimitInMemoryLate(store, c) ==
    LET validRequests == SelectSeq(requestsOf(store, c), InWindow)
    IN  IF Len(validRequests) > maxRequests
        THEN [allowed |-> FALSE, store |-> store]
        ELSE [allowed |-> TRUE, store |-> Put(store, c, Append(validRequests, 0))]

(* the result of the call and the store it leaves *)
checkRateLimitInMemory(store, c) ==
    LET validRequests == SelectSeq(requestsOf(store, c), InWindow)
    IN  IF Len(validRequests) >= maxRequests
        THEN [allowed |-> FALSE, store |-> store]
        ELSE [allowed |-> TRUE, store |-> Put(store, c, Append(validRequests, 0))]

(* the remote store's commands: INCR key; EXPIRE key ttl NX *)
Count(store, key) == IF key \in DOMAIN store THEN store[key].count ELSE 0

redisIncr(store, key) ==
    Put(store, key, [count |-> Count(store, key) + 1,
                     ttl |-> IF key \in DOMAIN store THEN store[key].ttl ELSE NoTTL])

(* faulty variant: EXPIRE without NX *)
redisExpireAlways(store, key, ttl) ==
    IF key \in DOMAIN store THEN [store EXCEPT ![key].ttl = ttl] ELSE store

redisExpireNX(store, key, ttl) ==
    IF key \in DOMAIN store /\ store[key].ttl = NoTTL
    THEN [store EXCEPT ![key].ttl = ttl]
    ELSE store

(* what comes back from the pipeline request.  "ok": status 200 and a body *)
(* whose first result is the counter; "netError": fetch rejects; "status": *)
(* resp.ok is false; "badJson": resp.json() rejects; "noResult": the body  *)
(* has no results[0].result; "nonNumeric": results[0].result is a string   *)
(* that is not a number                                                    *)
FailureKinds == {"netError", "status", "badJson", "noResult", "nonNumeric"}
ResponseKinds == {"ok"} \cup FailureKinds

resultOf(kind, incr) ==
    CASE kind = "ok" -> [t |-> "num", n |-> incr]
      [] kind = "nonNumeric" -> [t |-> "str", n |-> 0]
      [] OTHER -> [t |-> "missing", n |-> 0]

(* Number(results?.[0]?.result ?? 0) *)
NumberOrZero(r) ==
    CASE r.t = "missing" -> [finite |-> TRUE, n |-> 0]
      [] r.t = "num" -> [finite |-> TRUE, n |-> r.n]
      [] OTHER -> [finite |-> FALSE, n |-> 0]

(* faulty variant: one call more than maxRequests is let through *)
checkRateLimitUpstashLoose(kind, incr) ==
    IF kind \in {"netError", "status", "badJson"} THEN "throw"
    ELSE LET v == NumberOrZero(resultOf(kind, incr))
         IN  IF ~v.finite THEN "throw"
             ELSE IF v.n <= maxRequests + 1 THEN "allow"
             ELSE "reject"

(* checkRateLimitUpstash from the response on: "throw", or the decision *)
checkRateLimitUpstash(kind, incr) ==
    IF kind \in {"netError", "status", "badJson"} THEN "throw"
    ELSE LET v == NumberOrZero(resultOf(kind, incr))
         IN  IF ~v.finite THEN "throw"
             ELSE IF v.n <= maxRequests THEN "allow"
             ELSE "reject"

----------------------------------------------------------------------------
(* The admission limiter: actions *)

LoopAtRest ==
    /\ text = FieldText
    /\ n = 0
    /\ i = 0
    /\ processedSuggestions = <<>>
    /\ takenRanges = <<>>
    /\ status = "returned"
    /\ cur = NoCand
    /\ curIdx = -1
    /\ verdict = "none"
    /\ fed = 0
    /\ now = 0

InitLimiter ==
    /\ LoopAtRest
    /\ HandlerAtRest
    /\ FnAtRest
    /\ remoteConfigured \in BOOLEAN
    /\ \/ LimiterAtRest
       \/ remoteConfigured /\ LimiterNearLimit
       \/ LimiterLocalNearLimit
       \/ remoteConfigured /\ LimiterBothNearLimit

(* checkRateLimitInMemory(c) decides a call *)
DecideLocally(c, kind, incr) ==
    LET r == checkRateLimitInMemory(rateLimitStore, c)
        requests == requestsOf(rateLimitStore, c)
    IN  /\ rateLimitStore' = r.store
        /\ granted' = IF r.allowed THEN [granted EXCEPT ![c] = Append(@, 0)] ELSE granted
        /\ lifetimeGrants' = IF r.allowed /\ c \in DOMAIN kv
                              THEN [lifetimeGrants EXCEPT ![c] = @ + 1]
                              ELSE lifetimeGrants
        /\ last' = [client |-> c, via |-> "local", kind |-> kind, allowed |-> r.allowed,
                    incr |-> incr, prior |-> Len(granted[c]),
                    dropped |-> Len(requests) - Len(SelectSeq(requests, InWindow))]

(* checkRateLimit(c) when the remote store is not configured *)
Unconfigured(c) ==
    /\ ~remoteConfigured
    /\ DecideLocally(c, "unconfigured", 0)
    /\ UNCHANGED <<remoteConfigured, kv, calls, remoteGrants, begun>>

CheckLocal(c) ==
    /\ Unconfigured(c)
    /\ UNCHANGED loopVars
    /\ UNCHANGED handlerVars
    /\ UNCHANGED fnVars

(* checkRateLimit(c) up to "await fetch(url, ...)" *)
Send(s, c) ==
    /\ remoteConfigured
    /\ calls[s].pc = "idle"
    /\ begun < MaxCalls
    /\ begun' = begun + 1
    /\ calls' = [calls EXCEPT ![s] = [pc |-> "sent", client |-> c, incr |-> 0,
                                      stale |-> FALSE]]
    /\ last' = NoCheck
    /\ UNCHANGED <<remoteConfigured, rateLimitStore, kv, granted, remoteGrants,
                   lifetimeGrants>>

Begin(s, c) ==
    /\ Send(s, c)
    /\ UNCHANGED loopVars
    /\ UNCHANGED handlerVars
    /\ UNCHANGED fnVars

(* the remote store runs the first command of the pipeline *)
StoreIncr(s) ==
    /\ calls[s].pc = "sent"
    /\ kv' = redisIncr(kv, calls[s].client)
    /\ calls' = [calls EXCEPT ![s].pc = "incremented",
                              ![s].incr = Count(kv, calls[s].client) + 1]
    /\ lifetimeGrants' = IF calls[s].client \in DOMAIN kv THEN lifetimeGrants
                          ELSE [lifetimeGrants EXCEPT ![calls[s].client] = 0]
    /\ last' = NoCheck
    /\ UNCHANGED <<remoteConfigured, rateLimitStore, granted, remoteGrants, begun>>
    /\ UNCHANGED loopVars
    /\ UNCHANGED handlerVars
    /\ UNCHANGED fnVars

(* the remote store runs the second command of the pipeline *)
StoreExpire(s) ==
    /\ calls[s].pc = "incremented"
    /\ kv' = redisExpireNX(kv, calls[s].client, ttlMs)
    /\ calls' = [calls EXCEPT ![s].pc = "executed"]
    /\ last' = NoCheck
    /\ UNCHANGED <<remoteConfigured, rateLimitStore, granted, remoteGrants,
                   lifetimeGrants, begun>>
    /\ UNCHANGED loopVars
    /\ UNCHANGED handlerVars
    /\ UNCHANGED fnVars

(* checkRateLimit(c) from the end of the await on: the request was lost    *)
(* or refused before the store ran it, or the store ran it and the         *)
(* response is of the given kind                                           *)
Settle(s, kind) ==
    LET c == calls[s].client
        r == checkRateLimitUpstash(kind, calls[s].incr)
    IN  /\ \/ calls[s].pc = "executed"
           \/ calls[s].pc = "sent" /\ kind \in {"netError", "status"}
        /\ calls' = [calls EXCEPT ![s] = NoCall]
        /\ IF r = "throw"
           THEN /\ DecideLocally(c, kind, calls[s].incr)
                /\ UNCHANGED remoteGrants
           ELSE /\ last' = [client |-> c, via |-> "remote", kind |-> kind,
                            allowed |-> (r = "allow"), incr |-> calls[s].incr,
                            prior |-> 0, dropped |-> 0]
                /\ remoteGrants' =
                       IF r = "allow" /\ kind = "ok" /\ ~calls[s].stale
                       THEN [remoteGrants EXCEPT ![c] = @ + 1]
                       ELSE remoteGrants
                /\ lifetimeGrants' =
                       IF r = "allow" /\ ~calls[s].stale /\ c \in DOMAIN kv
                       THEN [lifetimeGrants EXCEPT ![c] = @ + 1]
                       ELSE lifetimeGrants
                /\ UNCHANGED <<rateLimitStore, granted>>
        /\ UNCHANGED <<remoteConfigured, kv, begun>>

Respond(s, kind) ==
    /\ Settle(s, kind)
    /\ UNCHANGED loopVars
    /\ UNCHANGED handlerVars
    /\ UNCHANGED fnVars

(* half a window passes: every stored request is that much older (an age   *)
(* of a window or more stays "a window"), every key with an expiry is that *)
(* much nearer to it, and a key that reaches it is removed                 *)
Older(age) == Min(age + Granule, windowMs)

(* the call was made less than a window ago *)
Recent(age) == age < windowMs

Expiring(store) == {k \in DOMAIN store : store[k].ttl # NoTTL /\ store[k].ttl <= Granule}

Tick ==
    /\ rateLimitStore' =
           [c \in DOMAIN rateLimitStore |->
               [k \in 1..Len(rateLimitStore[c]) |-> Older(rateLimitStore[c][k])]]
    /\ granted' =
           [c \in Clients |->
               SelectSeq([k \in 1..Len(granted[c]) |-> Older(granted[c][k])], Recent)]
    /\ kv' = [k \in DOMAIN kv \ Expiring(kv) |->
                 IF kv[k].ttl = NoTTL THEN kv[k]
                 ELSE [kv[k] EXCEPT !.ttl = @ - Granule]]
    /\ remoteGrants' = [c \in Clients |-> IF c \in Expiring(kv) THEN 0 ELSE remoteGrants[c]]
    /\ lifetimeGrants' =
           [c \in Clients |-> IF c \in Expiring(kv) THEN 0 ELSE lifetimeGrants[c]]
    /\ calls' = [s \in Slots |->
                    IF calls[s].pc \in {"incremented", "executed"}
                           /\ calls[s].client \in Expiring(kv)
                    THEN [calls[s] EXCEPT !.stale = TRUE]
                    ELSE calls[s]]
    /\ last' = NoCheck
    /\ UNCHANGED <<remoteConfigured, begun>>
    /\ UNCHANGED loopVars
    /\ UNCHANGED handlerVars
    /\ UNCHANGED fnVars

(* the number of stored requests of the given identities that are a       *)
(* window old or older                                                     *)
RECURSIVE expiredIn(_, _)
expiredIn(store, ids) ==
    IF ids = {} THEN 0
    ELSE LET c == CHOOSE x \in ids : TRUE
         IN  (Len(store[c]) - Len(SelectSeq(store[c], InWindow)))
                 + expiredIn(store, ids \ {c})

(* faulty variant: the callback empties the store *)
SweepAll ==
    /\ rateLimitStore' = <<>>
    /\ last' = [NoCheck EXCEPT !.via = "sweep",
                               !.dropped = expiredIn(rateLimitStore, DOMAIN rateLimitStore)]
    /\ UNCHANGED <<remoteConfigured, kv, calls, granted, remoteGrants, lifetimeGrants,
                   begun>>
    /\ UNCHANGED loopVars
    /\ UNCHANGED handlerVars
    /\ UNCHANGED fnVars

(* the setInterval callback *)
Sweep ==
    /\ rateLimitStore' =
           [c \in {d \in DOMAIN rateLimitStore :
                       SelectSeq(rateLimitStore[d], InWindow) # <<>>} |->
               SelectSeq(rateLimitStore[c], InWindow)]
    /\ last' = [NoCheck EXCEPT !.via = "sweep",
                               !.dropped = expiredIn(rateLimitStore, DOMAIN rateLimitStore)]
    /\ UNCHANGED <<remoteConfigured, kv, calls, granted, remoteGrants, lifetimeGrants,
                   begun>>
    /\ UNCHANGED loopVars
    /\ UNCHANGED handlerVars
    /\ UNCHANGED fnVars

NextLimiter ==
    \/ \E c \in Clients : CheckLocal(c)
    \/ \E s \in Slots, c \in Clients : Begin(s, c)
    \/ \E s \in Slots : StoreIncr(s)
    \/ \E s \in Slots : StoreExpire(s)
    \/ \E s \in Slots, kind \in ResponseKinds : Respond(s, kind)
    \/ Tick
    \/ Sweep

SpecLimiter == InitLimiter /\ [][NextLimiter]_vars

(* time passes, and the remote store finishes a pipeline it has begun *)
FairSpecLimiter ==
    /\ SpecLimiter
    /\ WF_vars(Tick)
    /\ \A s \in Slots : WF_vars(StoreExpire(s))

----------------------------------------------------------------------------
(* Properties of the admission limiter *)

(* C17: with maxRequests = 10 and windowMs = 60000 the local strategy      *)
(* allows a call iff it has allowed fewer than 10 calls of that client in  *)
(* the trailing 60000 ms; so no more than 10 allowed calls are ever less   *)
(* than a window old, the 11th call in a window is rejected, and a call    *)
(* made a full window after the earliest counted one is allowed again.     *)
C17_SlidingWindowAdmission ==
    /\ maxRequests = 10
    /\ windowMs = 60000
    /\ \A c \in Clients : Len(granted[c]) <= maxRequests
    /\ last.via = "local" => (last.allowed <=> last.prior < maxRequests)

(* the store was full, its earliest requests are now a window old, and the *)
(* call is allowed again                                                   *)
C17_Witness ==
    /\ ~remoteConfigured
    /\ last.via = "local"
    /\ last.allowed
    /\ last.dropped >= 1
    /\ last.prior + last.dropped >= maxRequests
    /\ Len(rateLimitStore[last.client]) = last.prior + 1

(* C18: with the remote store configured, a call whose remote check failed *)
(* (network error, non-success status, malformed body) is decided by the   *)
(* local strategy.                                                         *)
C18_RemoteFailureFallsBack ==
    last.kind \in FailureKinds => last.via = "local"

(* C19: under the remote strategy a call is allowed iff its post-increment *)
(* counter value is <= maxRequests, whatever the interleaving: concurrent  *)
(* calls on one key get different counter values, at most maxRequests      *)
(* calls are allowed on one key, and a rejected call has advanced the      *)
(* counter.                                                                *)
C19_AllowedIffWithinCount ==
    /\ (last.via = "remote" /\ last.kind = "ok") =>
           (last.allowed <=> last.incr <= maxRequests)
    /\ \A c \in Clients : remoteGrants[c] <= maxRequests
    /\ \A s, t \in Slots :
           (/\ s # t
            /\ calls[s].pc \in {"incremented", "executed"}
            /\ calls[t].pc \in {"incremented", "executed"}
            /\ calls[s].client = calls[t].client
            /\ ~calls[s].stale
            /\ ~calls[t].stale)
           => calls[s].incr # calls[t].incr
    /\ \A s \in Slots :
           (calls[s].pc \in {"incremented", "executed"} /\ ~calls[s].stale)
           => /\ calls[s].client \in DOMAIN kv
              /\ kv[calls[s].client].count >= calls[s].incr

(* a call is rejected with counter value maxRequests + 2: the rejected     *)
(* call before it was counted too                                          *)
C19_Witness ==
    /\ last.via = "remote"
    /\ last.kind = "ok"
    /\ ~last.allowed
    /\ last.incr = maxRequests + 2
    /\ remoteGrants[last.client] = maxRequests

(* a key without expiry was created by a pipeline whose EXPIRE is still to *)
(* run; an expiry is at most a window away                                 *)
ExpiryPending ==
    \A c \in DOMAIN kv :
        /\ kv[c].ttl = NoTTL =>
               \E s \in Slots : /\ calls[s].pc = "incremented"
                                /\ calls[s].client = c
                                /\ ~calls[s].stale
        /\ kv[c].ttl # NoTTL => (kv[c].ttl > 0 /\ kv[c].ttl <= windowMs)

(* an expiry is set to the window length, and once set it only runs down *)
ExpiryNotExtended ==
    \A c \in DOMAIN kv \cap DOMAIN kv' :
        /\ kv[c].ttl # NoTTL => (kv'[c].ttl # NoTTL /\ kv'[c].ttl <= kv[c].ttl)
        /\ (kv[c].ttl = NoTTL /\ kv'[c].ttl # NoTTL) => kv'[c].ttl = windowMs

(* C20: the key's expiry is set to the window length by the pipeline that  *)
(* creates the key (or by one racing with it) and is never extended by a   *)
(* later call; after a completed remote check the key carries an expiry;   *)
(* so every key is eventually removed and its counter starts again.        *)
C20_ExpirySetOnceKeyExpires ==
    /\ []ExpiryPending
    /\ [][ExpiryNotExtended]_vars
    /\ [](last.via = "remote" /\ last.kind = "ok" /\ ~(\E s \in Slots : calls[s].pc = "incremented")
             => \A c \in DOMAIN kv : kv[c].ttl # NoTTL)
    /\ \A c \in Clients : (c \in DOMAIN kv) ~> (c \notin DOMAIN kv)

(* a rejected call completed on a key half a window old: its EXPIRE left   *)
(* the expiry where it was                                                 *)
C20_Witness ==
    /\ last.via = "remote"
    /\ last.kind = "ok"
    /\ ~last.allowed
    /\ last.client \in DOMAIN kv
    /\ kv[last.client].ttl = windowMs - Granule
    /\ kv[last.client].count = last.incr

(* C21: the local check reads, filters, compares and appends in one step:  *)
(* whatever other calls and sweeps run in between, the requests of a       *)
(* client that the store holds inside the window are exactly the calls     *)
(* allowed in that window, none lost and none counted twice, and they are  *)
(* never more than maxRequests; so two calls in flight together are never  *)
(* both let through when that would exceed maxRequests.                    *)
C21_LocalCheckAtomic ==
    \A c \in Clients :
        /\ SelectSeq(requestsOf(rateLimitStore, c), Recent) = granted[c]
        /\ Len(SelectSeq(requestsOf(rateLimitStore, c), Recent)) <= maxRequests
        /\ (last.via = "local" /\ last.client = c) =>
               Len(granted[c]) = last.prior + (IF last.allowed THEN 1 ELSE 0)

(* a call whose remote check failed was let through as the last one the    *)
(* window has room for, while another call of the client is in flight      *)
C21_Witness ==
    /\ last.via = "local"
    /\ last.allowed
    /\ last.prior = maxRequests - 1
    /\ \E s \in Slots : calls[s].pc # "idle" /\ calls[s].client = last.client

(* C37: with the remote store configured, the calls of one identity that  *)
(* are allowed while one key of the remote store lives number at most      *)
(* 2 x maxRequests, whichever remote checks fail: maxRequests by the       *)
(* remote counter and maxRequests by the local fallback.                   *)
C37_TwiceMaxPerKeyLifetime ==
    \A c \in Clients : lifetimeGrants[c] <= 2 * maxRequests

(* C33: under the local strategy a rejected call leaves the store as it    *)
(* was: no timestamp is recorded and the list is not rewritten, so the     *)
(* calls counted are the allowed ones and the next check of the identity   *)
(* is decided as if the rejected call had not been made.                   *)
C33_RejectionLeavesStore ==
    [][(last'.via = "local" /\ ~last'.allowed) =>
           /\ rateLimitStore' = rateLimitStore
           /\ granted' = granted
           /\ checkRateLimitInMemory(rateLimitStore', last'.client)
                  = checkRateLimitInMemory(rateLimitStore, last'.client)]_vars

(* a call decided locally was rejected with maxRequests calls in the window *)
C33_Witness ==
    /\ last.via = "local"
    /\ ~last.allowed
    /\ last.prior = maxRequests
    /\ Len(requestsOf(rateLimitStore, last.client)) = maxRequests

(* C34: a sweep removes only timestamps that are already outside the       *)
(* window and deletes only identities left with none, so every check is    *)
(* decided after the sweep as it would have been without it (and leaves    *)
(* the same requests in the window); right after a sweep no identity of    *)
(* the store has an empty or fully expired list.                           *)
C34_SweepChangesNoDecision ==
    [][last'.via = "sweep" =>
           /\ \A c \in Clients :
                  /\ SelectSeq(requestsOf(rateLimitStore', c), InWindow)
                         = SelectSeq(requestsOf(rateLimitStore, c), InWindow)
                  /\ checkRateLimitInMemory(rateLimitStore', c).allowed
                         = checkRateLimitInMemory(rateLimitStore, c).allowed
                  /\ requestsOf(checkRateLimitInMemory(rateLimitStore', c).store, c)
                         = SelectSeq(requestsOf(checkRateLimitInMemory(rateLimitStore, c).store, c),
                                     InWindow)
                  /\ granted'[c] = SelectSeq(requestsOf(rateLimitStore', c), InWindow)
           /\ \A c \in DOMAIN rateLimitStore' :
                  /\ rateLimitStore'[c] # <<>>
                  /\ SelectSeq(rateLimitStore'[c], InWindow) = rateLimitStore'[c]]_vars

(* a sweep removed an expired timestamp of an identity and kept a recent one *)
C34_Witness ==
    /\ last.via = "sweep"
    /\ last.dropped >= 1
    /\ \E c \in DOMAIN rateLimitStore : rateLimitStore[c] # <<>>

----------------------------------------------------------------------------
(* Further properties of the reconciliation loop *)

(* C29: an empty candidate array gives an empty suggestion array, whatever *)
(* the text.                                                               *)
C29_EmptyInEmptyOut ==
    (n = 0 /\ status = "returned") =>
        /\ processedSuggestions = <<>>
        /\ takenRanges = <<>>
        /\ i = 0

(* the loop returned on an empty array for a text that begins with the     *)
(* dotted capital I                                                        *)
C29_Witness ==
    /\ n = 0
    /\ status = "returned"
    /\ text[1] = "Idot"
    /\ processedSuggestions = <<>>

(* before occurs in the text at offset p *)
OccursAt(b, p) ==
    /\ p \in 0..(Len(text) - Len(b))
    /\ SubSeq(text, p + 1, p + Len(b)) = b

(* C30: a candidate whose reported span does not hold before, while before *)
(* occurs in the text, is moved to the occurrence of before (overlapping   *)
(* ones included) whose start is nearest to the start the candidate        *)
(* reported; of two equally near, to the lower one.                        *)
C30_NearestExactOccurrence ==
    LET b == cur.before.s
        reported == cur.start.n
    IN  (/\ verdict = "accepted"
         /\ cur.before.t = "str"
         /\ b # <<>>
         /\ cur.start.t = "num"
         /\ slice(text, clampStart(cur, text), clampEnd(cur, text)) # b
         /\ \E p \in 0..Len(text) : OccursAt(b, p))
        => /\ OccursAt(b, Last.start)
           /\ Last.end = Last.start + Len(b)
           /\ \A p \in 0..Len(text) :
                  OccursAt(b, p) =>
                      \/ Abs(Last.start - reported) < Abs(p - reported)
                      \/ /\ Abs(Last.start - reported) = Abs(p - reported)
                         /\ Last.start <= p

(* "aa" reported at the end of "aaa" is moved to offset 1, the occurrence  *)
(* that overlaps the one at offset 0                                       *)
C30_Witness ==
    /\ text = <<"a", "a", "a">>
    /\ verdict = "accepted"
    /\ cur.before = Str(<<"a", "a">>)
    /\ cur.start = Off(3)
    /\ Last.start = 1
    /\ Last.end = 3

(* "a" reported at the "A" of "aAa", as near to offset 0 as to offset 2 *)
C30_TieWitness ==
    /\ text = <<"a", "A", "a">>
    /\ verdict = "accepted"
    /\ cur.before = Str(<<"a">>)
    /\ cur.start = Off(1)
    /\ Last.start = 0

(* C31: the case-insensitive tier runs only when before occurs nowhere in  *)
(* the text as it is written: when it does occur, the candidate is moved   *)
(* to such an occurrence, even when the text holds before in another case  *)
(* nearer to the reported start, and before is left as it was.             *)
C31_ExactBeforeCaseInsensitive ==
    LET b == cur.before.s
    IN  (/\ verdict = "accepted"
         /\ cur.before.t = "str"
         /\ b # <<>>
         /\ slice(text, clampStart(cur, text), clampEnd(cur, text)) # b)
        => /\ (\E p \in 0..Len(text) : OccursAt(b, p)) =>
                  /\ OccursAt(b, Last.start)
                  /\ Last.before = b
                  /\ Last.tier = "exact"
           /\ Last.tier = "ci" => ~(\E p \in 0..Len(text) : OccursAt(b, p))

(* "a" reported at the "A" of "Aa": the text holds "A" at the reported     *)
(* start itself, and the candidate is moved to the "a" at offset 1         *)
C31_Witness ==
    /\ text = <<"A", "a">>
    /\ verdict = "accepted"
    /\ cur.before = Str(<<"a">>)
    /\ cur.start = Off(0)
    /\ cur.end = Off(1)
    /\ Last.start = 1
    /\ Last.before = <<"a">>

----------------------------------------------------------------------------
(* The request handler *)

MAX_TEXT_LENGTH == 12000

(* request bodies: texts of every kind validateRequest tells apart, and    *)
(* the values of "version"                                                 *)
MaxText == [k \in 1..MAX_TEXT_LENGTH |-> "a"]
OverText == [k \in 1..(MAX_TEXT_LENGTH + 1) |-> "a"]
HugeText == [k \in 1..(MAX_TEXT_LENGTH + 3000) |-> "a"]

Version10 == Str(<<"1", ".", "0">>)
Version20 == Str(<<"2", ".", "0">>)

Body(txt, version) == [t |-> "object", text |-> txt, version |-> version]
NoBody == NoReq.body

Bodies ==
    {NoBody}
        \cup {Body(txt, Undefined) :
                 txt \in {Undefined, Num("5"), Str(<<>>), Str(WireText), Str(MaxText),
                          Str(OverText), Str(HugeText)}}
        \cup {Body(Str(WireText), v) : v \in {Version10, Version20, Str(<<>>), Num("1"), Null}}

Requests ==
    {[method |-> m, body |-> NoBody] : m \in {"OPTIONS", "GET"}}
        \cup {[method |-> "POST", body |-> b] : b \in Bodies}

validateRequest(data) ==
    IF data.t = "null" THEN FALSE
    ELSE IF ~Truthy(data.text) \/ data.text.t # "str" THEN FALSE
    ELSE IF Len(data.text.s) = 0 THEN FALSE
    ELSE IF Len(data.text.s) > MAX_TEXT_LENGTH THEN FALSE
    ELSE IF Truthy(data.version) /\ data.version # Version10 THEN FALSE
    ELSE TRUE

(* faulty variant: the API key is not looked at *)
entryKeyUnchecked(method, key) ==
    IF method = "OPTIONS" THEN "preflight"
    ELSE IF method # "POST" THEN "notAllowed"
    ELSE "limit"

(* the handler up to the rate limiter: which way it leaves *)
entry(method, key) ==
    IF method = "OPTIONS" THEN "preflight"
    ELSE IF method # "POST" THEN "notAllowed"
    ELSE IF ~key THEN "noKey"
    ELSE "limit"

(* res.status(...).json(...) *)
Plain(code, kind) ==
    [status |-> code, kind |-> kind, llmCalled |-> FALSE, skippedReason |-> "none",
     count |-> 0]
Result(called, reason, count) ==
    [status |-> 200, kind |-> "result", llmCalled |-> called, skippedReason |-> reason,
     count |-> count]

(* what a fetch to the LLM comes to.  "netError": fetch rejects; "status": *)
(* response.ok is false; "badBody": response.json() rejects; "noChoices":  *)
(* the body has no choices; otherwise the content of the first choice:     *)
(* "json" parses as it is, "wrapped" holds a block in braces that parses,  *)
(* "brokenBlock" holds a block in braces that does not parse, "garbage"    *)
(* holds no such block, "empty" is the empty string                        *)
TransportFailures == {"netError", "status", "badBody"}
ContentKinds == {"json", "wrapped", "brokenBlock", "garbage", "empty"}
LLMResponses == TransportFailures \cup {"noChoices"} \cup ContentKinds

(* JSON texts, character by character: the braces, the double quote "q",  *)
(* "k" for a member name with its colon, "x" for any other character.  A   *)
(* value is a string or an object of at most one member.                   *)
JStr(s) == [t |-> "jstr", s |-> s, m |-> <<>>]
JObj(members) == [t |-> "jobj", s |-> <<>>, m |-> members]
NoValue == [t |-> "none", s |-> <<>>, m |-> <<>>]

(* JSON.stringify *)
RECURSIVE serialize(_)
serialize(v) ==
    IF v.t = "jstr" THEN <<"q">> \o v.s \o <<"q">>
    ELSE IF v.m = <<>> THEN <<"{", "}">>
    ELSE <<"{", "k">> \o serialize(v.m[1]) \o <<"}">>

Failed == [ok |-> FALSE, v |-> NoValue, rest |-> <<>>]

(* JSON.parse, one value from the front of s *)
RECURSIVE parseValue(_)
parseValue(s) ==
    IF s = <<>> THEN Failed
    ELSE IF Head(s) = "q"
    THEN LET closing == {j \in 2..Len(s) : s[j] = "q"}
             j == CHOOSE c \in closing : \A d \in closing : c <= d
         IN  IF closing = {} THEN Failed
             ELSE [ok |-> TRUE, v |-> JStr(SubSeq(s, 2, j - 1)),
                   rest |-> SubSeq(s, j + 1, Len(s))]
    ELSE IF Head(s) = "{" /\ Len(s) >= 2 /\ s[2] = "}"
    THEN [ok |-> TRUE, v |-> JObj(<<>>), rest |-> SubSeq(s, 3, Len(s))]
    ELSE IF Head(s) = "{" /\ Len(s) >= 2 /\ s[2] = "k"
    THEN LET r == parseValue(SubSeq(s, 3, Len(s)))
         IN  IF r.ok /\ r.rest # <<>> /\ Head(r.rest) = "}"
             THEN [ok |-> TRUE, v |-> JObj(<<r.v>>), rest |-> Tail(r.rest)]
             ELSE Failed
    ELSE Failed

(* JSON.parse(s): the value, or ok = FALSE for the SyntaxError *)
JSONparse(s) ==
    LET r == parseValue(s)
    IN  IF r.ok /\ r.rest = <<>> THEN [ok |-> TRUE, v |-> r.v]
        ELSE [ok |-> FALSE, v |-> NoValue]

(* depth after the character at pos, counted from the character at start *)
depthAt(str, start, pos) ==
    Cardinality({j \in start..pos : str[j] = "{"})
        - Cardinality({j \in start..pos : str[j] = "}"})

(* extractJSONBlock: the block, or found = FALSE for null *)
extractJSONBlock(str) ==
    LET opens == {j \in 1..Len(str) : str[j] = "{"}
        start == CHOOSE a \in opens : \A b \in opens : a <= b
        ends == {j \in start..Len(str) : str[j] = "}" /\ depthAt(str, start, j) = 0}
        end == CHOOSE a \in ends : \A b \in ends : a <= b
    IN  IF opens = {} THEN [found |-> FALSE, block |-> <<>>]
        ELSE IF ends = {} THEN [found |-> FALSE, block |-> <<>>]
        ELSE [found |-> TRUE, block |-> SubSeq(str, start, end)]

(* faulty variant: no repair, only JSON.parse of the content as it is *)
tryParseJSONDirect(content) == JSONparse(content)

(* ok = FALSE stands for the exception *)
tryParseJSONWithRepair(content) ==
    LET direct == JSONparse(content)
        b == extractJSONBlock(content)
    IN  IF direct.ok THEN direct
        ELSE IF b.found THEN JSONparse(b.block)
        ELSE [ok |-> FALSE, v |-> NoValue]

(* a content of each kind *)
ContentOf(kind) ==
    CASE kind = "json" -> <<"{", "}">>
      [] kind = "wrapped" -> <<"x", "{", "}", "x">>
      [] kind = "brokenBlock" -> <<"x", "{", "k", "q", "}", "q", "}">>
      [] kind = "garbage" -> <<"x">>
      [] OTHER -> <<>>

(* strictRetryJSON: the content, or null *)
strictRetryJSON(kind) ==
    IF kind \in TransportFailures THEN "null"
    ELSE IF kind = "noChoices" \/ kind = "empty" THEN "null"
    ELSE kind

ClientOf(r) == CHOOSE c \in Clients : TRUE

(* the arrays the LLM may return: for the longest text, the empty one *)
ArraySizes == 0..MaxWireCands
SizesFor(txt) == IF txt = WireText THEN ArraySizes ELSE {0}

(* the locals of checkTextWithOpenAI before the loop *)
LoopIdle ==
    /\ text' = FieldText
    /\ n' = 0
    /\ i' = 0
    /\ processedSuggestions' = <<>>
    /\ takenRanges' = <<>>
    /\ status' = "returned"
    /\ cur' = NoCand
    /\ curIdx' = -1
    /\ verdict' = "none"
    /\ fed' = 0
    /\ now' = 0

LoopEntered(txt, k) ==
    /\ text' = txt
    /\ n' = k
    /\ i' = 0
    /\ processedSuggestions' = <<>>
    /\ takenRanges' = <<>>
    /\ status' = "running"
    /\ cur' = NoCand
    /\ curIdx' = -1
    /\ verdict' = "none"
    /\ fed' = 0
    /\ now' = 0

(* faulty variant: the limiter's decision is not looked at *)
AdmittedUnlimited(allowed, data, sn) ==
    IF ~validateRequest(data)
    THEN /\ res' = Plain(400, "error")
         /\ hpc' = "done"
         /\ llmCalls' = 0
         /\ seen' = [sn EXCEPT !.consulted = TRUE, !.allowed = allowed, !.validated = TRUE]
    ELSE /\ res' = NoRes
         /\ hpc' = "primary"
         /\ llmCalls' = 1
         /\ seen' = [sn EXCEPT !.consulted = TRUE, !.allowed = allowed, !.validated = TRUE]

(* the handler from the limiter's decision to the fetch of the LLM call *)
Admitted(allowed, data, sn) ==
    IF ~allowed
    THEN /\ res' = Plain(429, "error")
         /\ hpc' = "done"
         /\ llmCalls' = 0
         /\ seen' = [sn EXCEPT !.consulted = TRUE]
    ELSE IF ~validateRequest(data)
    THEN /\ res' = Plain(400, "error")
         /\ hpc' = "done"
         /\ llmCalls' = 0
         /\ seen' = [sn EXCEPT !.consulted = TRUE, !.allowed = allowed, !.validated = TRUE]
    ELSE /\ res' = NoRes
         /\ hpc' = "primary"
         /\ llmCalls' = 1
         /\ seen' = [sn EXCEPT !.consulted = TRUE, !.allowed = allowed, !.validated = TRUE]

(* a request arrives: the handler up to its first await, or to its response *)
Receive(r) ==
    LET e == entry(r.method, apiKey)
        c == ClientOf(r)
        sn == [Unseen EXCEPT !.store = rateLimitStore, !.kv = kv]
    IN  /\ hpc \in {"idle", "done"}
        /\ served < MaxServed
        /\ served' = served + 1
        /\ req' = r
        /\ LoopIdle
        /\ UNCHANGED apiKey
        /\ UNCHANGED fnVars
        /\ \/ /\ e # "limit"
              /\ res' = CASE e = "preflight" -> Plain(200, "ok")
                          [] e = "notAllowed" -> Plain(405, "error")
                          [] OTHER -> Plain(500, "error")
              /\ hpc' = "done"
              /\ llmCalls' = 0
              /\ seen' = sn
              /\ last' = NoCheck
              /\ UNCHANGED <<remoteConfigured, rateLimitStore, kv, calls, granted,
                             remoteGrants, lifetimeGrants, begun>>
           \/ /\ e = "limit"
              /\ Unconfigured(c)
              /\ Admitted(checkRateLimitInMemory(rateLimitStore, c).allowed, r.body, sn)
           \/ /\ e = "limit"
              /\ Send("s1", c)
              /\ res' = NoRes
              /\ hpc' = "limiting"
              /\ llmCalls' = 0
              /\ seen' = [sn EXCEPT !.consulted = TRUE]

(* the handler from the end of "await checkRateLimit(clientId)" on *)
Admit(kind) ==
    LET c == calls["s1"].client
        r == checkRateLimitUpstash(kind, calls["s1"].incr)
        allowed == IF r = "throw" THEN checkRateLimitInMemory(rateLimitStore, c).allowed
                   ELSE r = "allow"
    IN  /\ hpc = "limiting"
        /\ Settle("s1", kind)
        /\ Admitted(allowed, req.body, seen)
        /\ UNCHANGED <<apiKey, req, served>>
        /\ UNCHANGED loopVars
        /\ UNCHANGED fnVars

(* checkTextWithOpenAI from the end of the first fetch to the loop, to the *)
(* second fetch, or to the exception the handler catches                   *)
PrimaryResponds(kind, k) ==
    /\ hpc = "primary"
    /\ seen' = [seen EXCEPT !.primary = kind]
    /\ IF kind \notin ContentKinds
       THEN /\ k = 0
            /\ res' = Result(FALSE, "api_error", 0)
            /\ hpc' = "done"
            /\ UNCHANGED llmCalls
            /\ UNCHANGED loopVars
       ELSE IF tryParseJSONWithRepair(ContentOf(kind)).ok
       THEN /\ k \in SizesFor(req.body.text.s)
            /\ LoopEntered(req.body.text.s, k)
            /\ hpc' = "reconciling"
            /\ UNCHANGED <<res, llmCalls>>
       ELSE /\ k = 0
            /\ hpc' = "retry"
            /\ llmCalls' = llmCalls + 1
            /\ UNCHANGED res
            /\ UNCHANGED loopVars
    /\ UNCHANGED <<apiKey, req, served>>
    /\ UNCHANGED limiterVars
    /\ UNCHANGED fnVars

(* checkTextWithOpenAI from the end of strictRetryJSON's fetch on *)
RetryResponds(kind, k) ==
    LET retryRaw == strictRetryJSON(kind)
    IN  /\ hpc = "retry"
        /\ seen' = [seen EXCEPT !.retry = kind]
        /\ IF retryRaw # "null" /\ tryParseJSONWithRepair(ContentOf(retryRaw)).ok
           THEN /\ k \in SizesFor(req.body.text.s)
                /\ LoopEntered(req.body.text.s, k)
                /\ hpc' = "reconciling"
                /\ UNCHANGED res
           ELSE /\ k = 0
                /\ res' = Result(TRUE, "null", 0)
                /\ hpc' = "done"
                /\ UNCHANGED loopVars
        /\ UNCHANGED <<apiKey, req, served, llmCalls>>
        /\ UNCHANGED limiterVars
        /\ UNCHANGED fnVars

(* the handler from the end of "await checkTextWithOpenAI(text)" on *)
Reply ==
    /\ hpc = "reconciling"
    /\ status # "running"
    /\ res' = IF status = "raised" THEN Result(FALSE, "api_error", 0)
              ELSE Result(TRUE, "null", Len(processedSuggestions))
    /\ hpc' = "done"
    /\ UNCHANGED <<apiKey, req, served, llmCalls, seen>>
    /\ UNCHANGED loopVars
    /\ UNCHANGED limiterVars
    /\ UNCHANGED fnVars

InitHandler ==
    /\ LoopAtRest
    /\ remoteConfigured \in BOOLEAN
    /\ \/ LimiterAtRest
       \/ LimiterLocalNearLimit
    /\ apiKey \in BOOLEAN
    /\ FnAtRest
    /\ req = NoReq
    /\ hpc = "idle"
    /\ res = NoRes
    /\ llmCalls = 0
    /\ served = 0
    /\ seen = Unseen

NextHandler ==
    \/ \E r \in Requests : Receive(r)
    \/ \E kind \in ResponseKinds : Admit(kind)
    \/ StoreIncr("s1")
    \/ StoreExpire("s1")
    \/ \E kind \in LLMResponses, k \in ArraySizes : PrimaryResponds(kind, k)
    \/ \E kind \in LLMResponses, k \in ArraySizes : RetryResponds(kind, k)
    \/ Iterate
    \/ Return
    \/ Reply

SpecHandler == InitHandler /\ [][NextHandler]_vars

(* the event loop runs what is ready to run: the loop and the response of  *)
(* a request whose awaits have ended; the remote store finishes a pipeline *)
(* it has begun.  Nothing makes a fetch end.                               *)
FairSpecHandler ==
    /\ SpecHandler
    /\ WF_vars(Iterate)
    /\ WF_vars(Return)
    /\ WF_vars(Reply)
    /\ WF_vars(StoreExpire("s1"))

----------------------------------------------------------------------------
(* Properties of the request handler *)

Waiting == hpc \in {"limiting", "primary", "retry"}
Answered == hpc = "done"
Parseable == {"json", "wrapped"}
Unparseable == ContentKinds \ Parseable
LimiterUntouched == rateLimitStore = seen.store /\ kv = seen.kv

(* C22: neither outbound call blocks a request forever: a request that is  *)
(* waiting for the remote store or for the LLM is eventually answered,     *)
(* also when the call it waits for never completes.                        *)
C22_OutboundCallsEnd == Waiting ~> Answered

(* C23: a request sends at most two fetches to the LLM; the second, the    *)
(* strict retry, is sent exactly when the content of the first cannot be   *)
(* parsed even after repair; and when the content of the retry cannot be   *)
(* parsed either, the request is answered 200 with zero suggestions.       *)
C23_AtMostOneRetry ==
    /\ llmCalls <= 2
    /\ (llmCalls = 2) = (seen.primary \in Unparseable)
    /\ (hpc = "retry") => (llmCalls = 2 /\ seen.retry = "none")
    /\ (seen.retry \in Unparseable) =>
           /\ Answered
           /\ res.status = 200
           /\ res.kind = "result"
           /\ res.count = 0

(* both contents held a block in braces that does not parse *)
C23_Witness ==
    /\ seen.primary = "brokenBlock"
    /\ seen.retry = "brokenBlock"
    /\ llmCalls = 2
    /\ res.status = 200
    /\ res.count = 0

(* C24: a request whose first or second fetch to the LLM ended in a        *)
(* network error or a non-success status is answered 200 with llmCalled    *)
(* false and a non-null skippedReason.                                     *)
C24_TransportFailureReported ==
    (Answered /\ (seen.primary \in {"netError", "status"}
                      \/ seen.retry \in {"netError", "status"}))
    => /\ res.status = 200
       /\ ~res.llmCalled
       /\ res.skippedReason # "null"

(* C25: a 200 response with zero suggestions carries llmCalled true and    *)
(* skippedReason null only if one of the fetches returned content that     *)
(* parses; after a transport failure of either fetch, or after two         *)
(* contents that do not parse, it carries a non-null skippedReason.        *)
C25_EmptyResultExplained ==
    (Answered /\ res.status = 200 /\ res.kind = "result" /\ res.count = 0)
    => /\ (res.llmCalled /\ res.skippedReason = "null")
              => (seen.primary \in Parseable \/ seen.retry \in Parseable)
       /\ (\/ seen.primary \in TransportFailures
           \/ seen.retry \in TransportFailures
           \/ (seen.primary \in Unparseable /\ seen.retry \in Unparseable))
              => res.skippedReason # "null"

(* C26: validation runs before the limiter: a POST whose body fails        *)
(* validation is answered 400, never 429, the limiter is not consulted and *)
(* its state is as it was when the request arrived.                        *)
C26_ValidatedBeforeLimited ==
    (Answered /\ req.method = "POST" /\ apiKey /\ ~validateRequest(req.body))
    => /\ res.status = 400
       /\ ~seen.consulted
       /\ LimiterUntouched

(* the body the claim accepts: text a non-empty string of at most          *)
(* MAX_TEXT_LENGTH characters, version absent or "1.0"                     *)
Acceptable(data) ==
    /\ data.t = "object"
    /\ data.text.t = "str"
    /\ Len(data.text.s) >= 1
    /\ Len(data.text.s) <= MAX_TEXT_LENGTH
    /\ data.version.t \in {"undefined", "null"} \/ data.version = Version10

(* C27: an admitted POST passes validation iff its text is a non-empty     *)
(* string of at most MAX_TEXT_LENGTH characters and its version is absent  *)
(* or "1.0"; one that does not is answered 400 and sends nothing to the    *)
(* LLM.                                                                    *)
C27_ValidationAcceptsIff ==
    seen.validated =>
        /\ Acceptable(req.body) = ~(Answered /\ res.status = 400)
        /\ ~Acceptable(req.body) => llmCalls = 0

(* C28: without an API key every POST is answered 500 before any other     *)
(* step: the limiter is not consulted and keeps its state, the body is not *)
(* validated, and nothing is sent to the remote store or to the LLM.       *)
C28_NoKeyNoWork ==
    (~apiKey /\ req.method = "POST")
    => /\ Answered
       /\ res = Plain(500, "error")
       /\ ~seen.consulted
       /\ ~seen.validated
       /\ llmCalls = 0
       /\ LimiterUntouched
       /\ \A s \in Slots : calls[s].pc = "idle"

(* a valid body arrived at a server without key whose local store holds    *)
(* requests                                                                *)
C28_Witness ==
    /\ ~apiKey
    /\ req = [method |-> "POST", body |-> Body(Str(WireText), Version10)]
    /\ res.status = 500
    /\ rateLimitStore # <<>>

(* C35: an LLM call is made only by a POST request that found the API key *)
(* configured, was allowed by the limiter and passed validation; a request *)
(* answered 405, 429, 400 or 500 for the missing key has made no LLM call. *)
C35_GuardsBeforeLLM ==
    /\ (llmCalls >= 1 \/ seen.primary # "none" \/ seen.retry # "none") =>
           /\ req.method = "POST"
           /\ apiKey
           /\ seen.consulted
           /\ seen.allowed
           /\ seen.validated
           /\ validateRequest(req.body)
    /\ (hpc = "done" /\ res.kind = "error" /\ res.status \in {405, 429, 400, 500}) =>
           /\ llmCalls = 0
           /\ seen.primary = "none"
           /\ seen.retry = "none"

(* both LLM calls of a request were made after the remote check failed and *)
(* the local fallback let the request through                              *)
C35_Witness ==
    /\ llmCalls = 2
    /\ last.via = "local"
    /\ last.kind \in FailureKinds
    /\ seen.allowed

----------------------------------------------------------------------------
(* The pure functions, each applied to inputs of its own *)

(* tryParseJSONWithRepair: an object, cut after some of its characters or  *)
(* whole, between a prefix without "{" and a suffix                        *)
JsonStrings == {JStr(c) : c \in StringsUpTo({"x", "{", "}"}, MaxJsonStr)}
FlatObjects == {JObj(<<>>)} \cup {JObj(<<v>>) : v \in JsonStrings}
JsonObjects == FlatObjects \cup {JObj(<<o>>) : o \in FlatObjects}

Prefixes == {<<>>, <<"x">>, <<"x", "x">>}
Suffixes == {<<>>, <<"x">>, <<"}">>, <<"x", "{">>, <<"q">>}

ParseInputs ==
    UNION {{[fn |-> "parse", prefix |-> p, object |-> o, cut |-> c, suffix |-> x] :
               c \in 0..Len(serialize(o))} :
           p \in Prefixes, o \in JsonObjects, x \in Suffixes}

RawText(a) == a.prefix \o SubSeq(serialize(a.object), 1, a.cut) \o a.suffix

(* the loop as a function of the whole array: arrays over candidates that  *)
(* are kept as they are, moved, dropped for each reason, or that throw     *)
WholeTexts == {<<"a", "a">>, <<"a", "A">>}

WholeCands ==
    {Cand(Str(<<"a">>), Off(0), Off(1)),
     Cand(Str(<<"a">>), Off(1), Off(2)),
     Cand(Str(<<"a", "a">>), Off(0), Off(2)),
     Cand(Str(<<"A">>), Off(0), Off(1)),
     Cand(Str(<<"b">>), Off(0), Off(1)),
     Cand(Num("5"), Off(0), Off(1)),
     [WellFormed EXCEPT !.kind = "null"],
     [WellFormed EXCEPT !.category = "style"]}

ReconcileInputs ==
    {[fn |-> "reconcile", text |-> t, suggestions |-> a] :
        t \in WholeTexts, a \in StringsUpTo(WholeCands, MaxArrayLen)}

(* faulty variant: the range of a candidate dropped for overlap is taken too *)
rangesAfterAnyOverlap(taken, v, a) ==
    IF v \in {"accepted", "overlap"} THEN Append(taken, <<a.start, a.end>>) ELSE taken

(* takenRanges after an iteration that left through v *)
rangesAfter(taken, v, a) ==
    IF v = "accepted" THEN Append(taken, <<a.start, a.end>>) ELSE taken

(* the loop from index idx on: what it returns, or that it threw, and the  *)
(* branch each element it looked at left through                           *)
RECURSIVE reconcileFrom(_, _, _, _, _, _)
reconcileFrom(txt, suggestions, idx, list, taken, fates) ==
    IF idx >= Len(suggestions)
    THEN [status |-> "returned", list |-> list, fates |-> fates]
    ELSE LET c == suggestions[idx + 1]
             v == outcome(c, txt, taken)
             a == anchor(c, txt)
             longer == Append(list, fixed(c, a, idx, 0))
         IN  IF v = "raised"
             THEN [status |-> "raised", list |-> <<>>, fates |-> Append(fates, v)]
             ELSE IF v = "accepted" /\ capReached(longer)
             THEN [status |-> "returned", list |-> longer, fates |-> Append(fates, v)]
             ELSE reconcileFrom(txt, suggestions, idx + 1,
                                IF v = "accepted" THEN longer ELSE list,
                                rangesAfter(taken, v, a), Append(fates, v))

reconcile(txt, suggestions) == reconcileFrom(txt, suggestions, 0, <<>>, <<>>, <<>>)

(* the array without the elements at the given indices *)
Without(suggestions, gone) ==
    LET kept(k) == k - 1 \notin gone
        RECURSIVE pick(_)
        pick(k) == IF k > Len(suggestions) THEN <<>>
                   ELSE (IF kept(k) THEN <<suggestions[k]>> ELSE <<>>) \o pick(k + 1)
    IN  pick(1)

DropReasons == {"shape", "category", "severity", "mismatch", "overlap"}

(* the indices of the elements the run dropped *)
droppedBy(run) == {k \in 0..(Len(run.fates) - 1) : run.fates[k + 1] \in DropReasons}

(* what a caller sees of the accepted suggestions *)
tuplesOf(run) ==
    [status |-> run.status,
     list |-> [k \in 1..Len(run.list) |->
                  <<run.list[k].start, run.list[k].end, run.list[k].before,
                    run.list[k].after, run.list[k].message>>]]

(* sanitizeString: strings of letters, spaces, tabs and control characters *)
SanitizeInputs ==
    {[fn |-> "sanitize", s |-> x, maxLen |-> k] :
        x \in StringsUpTo({"m", " ", "TAB", "CTL"}, MaxRawLen), k \in 1..MaxRawLen}

InitFunctions ==
    /\ LoopAtRest
    /\ LimiterAtRest
    /\ remoteConfigured = FALSE
    /\ HandlerAtRest
    /\ arg \in ParseInputs \cup SanitizeInputs \cup ReconcileInputs
    /\ ret = NoOutput

Parse ==
    /\ arg.fn = "parse"
    /\ ret = NoOutput
    /\ ret' = [fn |-> "parse", parsed |-> tryParseJSONWithRepair(RawText(arg))]
    /\ UNCHANGED arg
    /\ UNCHANGED <<loopVars, limiterVars, handlerVars>>

Sanitize ==
    /\ arg.fn = "sanitize"
    /\ ret = NoOutput
    /\ ret' = [fn |-> "sanitize",
               once |-> sanitizeString(arg.s, arg.maxLen),
               twice |-> sanitizeString(sanitizeString(arg.s, arg.maxLen), arg.maxLen)]
    /\ UNCHANGED arg
    /\ UNCHANGED <<loopVars, limiterVars, handlerVars>>

(* the loop on the whole array, and on the array without some or all of   *)
(* the elements it dropped                                                 *)
Reconcile ==
    /\ arg.fn = "reconcile"
    /\ ret = NoOutput
    /\ LET whole == reconcile(arg.text, arg.suggestions)
       IN  ret' = [fn |-> "reconcile",
                   whole |-> whole,
                   pruned |-> {tuplesOf(reconcile(arg.text, Without(arg.suggestions, gone))) :
                                  gone \in SUBSET droppedBy(whole)}]
    /\ UNCHANGED arg
    /\ UNCHANGED <<loopVars, limiterVars, handlerVars>>

NextFunctions == Parse \/ Sanitize \/ Reconcile

SpecFunctions == InitFunctions /\ [][NextFunctions]_vars

----------------------------------------------------------------------------
(* Properties of the pure functions *)

HasOpen(s) == \E j \in 1..Len(s) : s[j] = "{"

(* from the first "{" on, the depth never comes back to zero *)
NeverCloses(s) ==
    /\ HasOpen(s)
    /\ LET first == CHOOSE a \in 1..Len(s) :
                        s[a] = "{" /\ \A b \in 1..(a - 1) : s[b] # "{"
       IN  \A j \in first..Len(s) : depthAt(s, first, j) > 0

(* C32: for every JSON object O, every prefix without "{" and every        *)
(* suffix, parsing prefix + serialize(O) + suffix returns O, also when a   *)
(* string of O holds "{" or "}"; a text without "{", or whose depth never  *)
(* comes back to zero, fails to parse.                                     *)
C32_RepairRoundTrip ==
    ret.fn = "parse" =>
        /\ arg.cut = Len(serialize(arg.object)) =>
               (ret.parsed.ok /\ ret.parsed.v = arg.object)
        /\ (~HasOpen(RawText(arg)) \/ NeverCloses(RawText(arg))) => ~ret.parsed.ok

Trimmed(s) == s = <<>> \/ (~IsSpace(s[1]) /\ ~IsSpace(s[Len(s)]))

(* C39: the result of sanitizeString has no whitespace at either end, and  *)
(* sanitizing it again with the same maxLen gives it back, also when the   *)
(* cut at maxLen falls right after a space.                                *)
C39_SanitizeIdempotentTrimmed ==
    ret.fn = "sanitize" =>
        /\ Trimmed(ret.once)
        /\ ret.twice = ret.once

(* C38: deleting from the array any of the candidates the loop dropped     *)
(* (for shape, enumeration, unrecoverable mismatch or overlap) leaves the  *)
(* sequence of accepted (start, end, before, after, message) unchanged.    *)
C38_DroppedCandidatesInert ==
    ret.fn = "reconcile" => ret.pruned = {tuplesOf(ret.whole)}

(* of three candidates on "aa" the second, which covers the whole text,    *)
(* was dropped for overlapping the first; the third was accepted           *)
C38_Witness ==
    /\ ret.fn = "reconcile"
    /\ arg.text = <<"a", "a">>
    /\ ret.whole.fates = <<"accepted", "overlap", "accepted">>
    /\ Len(ret.whole.list) = 2

====
